---- MODULE Spec2Model ----
(***************************************************************************)
(* Model of package_manager/dpkg_parser.py: the resolution run             *)
(* download_dpkg and the index download download_package_list.             *)
(*                                                                         *)
(* Strings are sequences of one-character strings, so that str.split is    *)
(* computed on characters.  Byte streams are abstract values; the SHA-256  *)
(* of a byte stream is looked up in a table.  Every statement of the two   *)
(* functions that touches state is one action; pc is the position of the   *)
(* single thread of control.                                               *)
(***************************************************************************)
EXTENDS Integers, Sequences, FiniteSets, TLC

\* ------------------------------------------------------------------ bounds
\* Largest number of specifier tokens in --packages.
MaxSpecs == 2
\* Number of index files in --package-files.
MaxFiles == 2
\* Longest single token for which every character string is enumerated.
MaxTokLen == 2

\* ------------------------------------------------------------- vocabulary
Chars == {"a", "b", "="}
Comma == ","
Equals == "="
None == <<>>

\* Keys of a package record (module constants of dpkg_parser.py).
FILENAME_KEY == "Filename"
SHA256_KEY == "SHA256"
VERSION_KEY == "Version"

\* Byte streams the transport can return for a .deb or for Packages.gz.
Bytes == {"x", "y", "z"}
\* Byte streams that gzip can inflate, and inflated texts that parse.
GzipOk == {"x", "y"}
ParseOk == {"x"}
\* Digest strings that can appear in an index or in --sha256.
Digests == {"d1", "d2", "D1"}

\* util.sha256_checksum: lower-case hex digest of the bytes of a file.
sha256_checksum(bytes) ==
  CASE bytes = "x" -> "d1"
    [] bytes = "y" -> "d2"
    [] OTHER -> "d3"

\* util.package_to_rule: the build-rule identifier of a package.
package_to_rule(workspace_name, pkg) == <<"@", workspace_name, "//file:", pkg>>

workspace_name == "ws"

\* ------------------------------------------------------------ str.split
RECURSIVE FirstIndex(_, _, _)
FirstIndex(s, sep, k) ==
  IF k > Len(s) THEN 0
  ELSE IF s[k] = sep THEN k
  ELSE FirstIndex(s, sep, k + 1)

RECURSIVE split(_, _)
split(s, sep) ==
  LET k == FirstIndex(s, sep, 1) IN
  IF k = 0 THEN <<s>>
  ELSE <<SubSeq(s, 1, k - 1)>> \o split(SubSeq(s, k + 1, Len(s)), sep)

RECURSIVE join(_, _)
join(parts, sep) ==
  IF Len(parts) = 0 THEN <<>>
  ELSE IF Len(parts) = 1 THEN parts[1]
  ELSE parts[1] \o <<sep>> \o join(Tail(parts), sep)

\* ----------------------------------------------------------------- inputs
RECURSIVE StringsUpTo(_)
StringsUpTo(n) ==
  IF n = 0 THEN {<<>>}
  ELSE LET shorter == StringsUpTo(n - 1) IN
       shorter \cup {Append(s, c) : s \in shorter, c \in Chars}

\* Every non-empty token over Chars up to MaxTokLen characters.
AllTokens == StringsUpTo(MaxTokLen) \ {<<>>}

\* Tokens used in requests of more than one specifier.
CommonTokens ==
  { <<"a">>, <<"b">>, <<"a", "=", "a">>, <<"a", "=", "b">>, <<"b", "=", "a">> }

RECURSIVE ListsUpTo(_, _)
ListsUpTo(S, n) ==
  IF n = 0 THEN {<<>>}
  ELSE LET shorter == ListsUpTo(S, n - 1) IN
       shorter \cup {Append(l, t) : l \in shorter, t \in S}

\* Values of --packages: comma-joined token lists.
PackagesInputs ==
  {join(l, Comma) : l \in (ListsUpTo(CommonTokens, MaxSpecs) \ {<<>>})}
    \cup AllTokens

Record(name, version, digest) ==
  [Version |-> version, Filename |-> <<"http://m/", name, "_", version>>,
   SHA256 |-> digest]

\* dict item assignment d[k] = v
Put(d, k, v) == [x \in (DOMAIN d) \cup {k} |-> IF x = k THEN v ELSE d[x]]

\* Contents of a persisted Packages.json (package name -> record): an index
\* without packages, one with a and b, one with a at the same version and
\* another digest, one with a at another version and an upper-case digest,
\* one with b only.
IndexContents ==
  LET a == <<"a">>
      b == <<"b">>
      empty == <<>>
  IN { empty,
       Put(Put(empty, a, Record(a, <<"a">>, "d1")), b, Record(b, <<"a">>, "d1")),
       Put(empty, a, Record(a, <<"a">>, "d2")),
       Put(empty, a, Record(a, <<"b">>, "D1")),
       Put(empty, b, Record(b, <<"a">>, "d1")) }

\* ------------------------------------------------------------------ state
VARIABLES
  pc,                 \* position of the thread of control
  download_and_extract_only,  \* --download-and-extract-only
  packages,           \* --packages, None when not given
  package_files,      \* --package-files: the content of each file, in order
  i,                  \* index of the current token of packages.split(",")
  pkg_vals,           \* current token
  pkg_name,
  pkg_version,
  package_file,       \* index of the current index file
  metadata,           \* json.load of the current index file
  buf,                \* bytes returned by urlopen
  out_file,           \* bytes of the artifact file last written
  package_to_rule_map,
  pkg_vals_to_package_file_and_sha256,
  map_file,           \* content of packages.bzl, None while not written
  error,              \* the exception that ended the run, None if none
  sha256,             \* --sha256, None when not given
  gz_file,            \* content of Packages.gz
  data,               \* inflated Packages.gz
  list_metadata,      \* result of parse_package_metadata
  packages_json,      \* content of Packages.json, None while not written
  opened,             \* history: <<specifier, index file>> of each json.load
  fetched,            \* history: <<specifier, index file, url>> of each urlopen
  verified,           \* history: specifiers whose digest comparison passed
  map_writes          \* history: number of writes of packages.bzl

vars == <<pc, download_and_extract_only, packages, package_files, i, pkg_vals, pkg_name, pkg_version,
          package_file, metadata, buf, out_file, package_to_rule_map,
          pkg_vals_to_package_file_and_sha256, map_file, error, sha256,
          gz_file, data, list_metadata, packages_json, opened, fetched,
          verified, map_writes>>

dpkgLocals == <<i, pkg_vals, pkg_name, pkg_version, package_file, metadata,
                out_file, package_to_rule_map,
                pkg_vals_to_package_file_and_sha256>>
listVars == <<sha256, gz_file, data, list_metadata, packages_json>>
history == <<opened, fetched, verified, map_writes>>
inputs == <<download_and_extract_only, packages, package_files>>

Init ==
  /\ pc = "main"
  /\ \/ /\ download_and_extract_only = FALSE
        /\ packages \in PackagesInputs
        /\ package_files \in [1..MaxFiles -> IndexContents]
        /\ sha256 = None
     \/ /\ download_and_extract_only = TRUE
        /\ packages = None
        /\ package_files = None
        /\ sha256 \in Digests \cup {"d3"}
  /\ i = 0
  /\ pkg_vals = <<>>
  /\ pkg_name = <<>>
  /\ pkg_version = <<>>
  /\ package_file = 0
  /\ metadata = <<>>
  /\ buf = None
  /\ out_file = None
  /\ package_to_rule_map = <<>>
  /\ pkg_vals_to_package_file_and_sha256 = <<>>
  /\ map_file = None
  /\ error = None
  /\ gz_file = None
  /\ data = None
  /\ list_metadata = None
  /\ packages_json = None
  /\ opened = <<>>
  /\ fetched = <<>>
  /\ verified = {}
  /\ map_writes = 0

\* ------------------------------------------------------------------- main
\* main(): dispatch on --download-and-extract-only.
Main ==
  /\ pc = "main"
  /\ pc' = IF download_and_extract_only THEN "list_urlopen" ELSE "for_pkg_vals"
  /\ UNCHANGED <<inputs, dpkgLocals, buf, map_file, error, listVars, history>>

\* ---------------------------------------------------------- download_dpkg
\* packages.split(",")
PkgValsList == split(packages, Comma)

SplitSpecifier_first_two(token) ==
  LET pkg_split == split(token, Equals) IN
  IF Len(pkg_split) < 2
  THEN [name |-> token, version |-> <<>>]
  ELSE [name |-> pkg_split[1], version |-> pkg_split[2]]

\* Lines 76-81: name and version of a token.
SplitSpecifier(token) ==
  LET pkg_split == split(token, Equals) IN
  IF Len(pkg_split) # 2
  THEN [name |-> token, version |-> <<>>]
  ELSE [name |-> pkg_split[1], version |-> pkg_split[2]]

Matches_any_version(md, name, version) == name \in DOMAIN md

\* Lines 85-87: the record of name in md satisfies the specifier.
Matches(md, name, version) ==
  /\ name \in DOMAIN md
  /\ (version = <<>> \/ version = md[name][VERSION_KEY])

Lower(digest) ==
  CASE digest = "D1" -> "d1"
    [] digest = "D2" -> "d2"
    [] OTHER -> digest

ChecksumMismatch_caseless(actual_checksum, expected_checksum) ==
  Lower(actual_checksum) # Lower(expected_checksum)

\* Line 96: exact string comparison of the two digests.
ChecksumMismatch(actual_checksum, expected_checksum) ==
  actual_checksum # expected_checksum

\* Lines 100-101: the token was accepted before with another digest.
Conflicting(seen, token, actual_checksum) ==
  /\ token \in DOMAIN seen
  /\ seen[token][2] # actual_checksum

\* Line 97
IntegrityError(name, expected_checksum, actual_checksum) ==
  <<"Wrong checksum", name, expected_checksum, actual_checksum>>

\* Lines 102-105
ConflictError(name, version, file1, digest1, file2, digest2) ==
  <<"Conflicting checksums", name, version, file1, digest1, file2, digest2>>

NotFoundError_token(token, name, version) == <<"not found", token, version>>

\* Line 110
NotFoundError(token, name, version) == <<"not found", name, version>>

\* urlopen raising
URLError(url) == <<"URLError", url>>

\* Lines 75-81: take the next token, or leave the loop when none is left.
ForPkgVals ==
  /\ pc = "for_pkg_vals"
  /\ IF i < Len(PkgValsList)
     THEN /\ i' = i + 1
          /\ pkg_vals' = PkgValsList[i + 1]
          /\ pkg_name' = SplitSpecifier(PkgValsList[i + 1]).name
          /\ pkg_version' = SplitSpecifier(PkgValsList[i + 1]).version
          /\ package_file' = 0
          /\ pc' = "for_package_file"
     ELSE /\ pc' = "write_map"
          /\ UNCHANGED <<i, pkg_vals, pkg_name, pkg_version, package_file>>
  /\ UNCHANGED <<inputs, metadata, buf, out_file, package_to_rule_map,
                 pkg_vals_to_package_file_and_sha256, map_file, error,
                 listVars, history>>

ForPackageFile_cached ==
  /\ pc = "for_package_file"
  /\ package_file < MaxFiles
  /\ package_file' = package_file + 1
  /\ metadata' = package_files[package_file + 1]
  /\ opened' = IF \E n \in 1..Len(opened) : opened[n][2] = package_file + 1
               THEN opened
               ELSE Append(opened, <<i, package_file + 1>>)
  /\ pc' = "match"
  /\ UNCHANGED <<inputs, i, pkg_vals, pkg_name, pkg_version, buf, out_file,
                 package_to_rule_map, pkg_vals_to_package_file_and_sha256,
                 map_file, error, listVars, fetched, verified, map_writes>>

\* Lines 82-84: open the next index file and json.load it.
ForPackageFile ==
  /\ pc = "for_package_file"
  /\ package_file < MaxFiles
  /\ package_file' = package_file + 1
  /\ metadata' = package_files[package_file + 1]
  /\ opened' = Append(opened, <<i, package_file + 1>>)
  /\ pc' = "match"
  /\ UNCHANGED <<inputs, i, pkg_vals, pkg_name, pkg_version, buf, out_file,
                 package_to_rule_map, pkg_vals_to_package_file_and_sha256,
                 map_file, error, listVars, fetched, verified, map_writes>>

NotFound_skip ==
  /\ pc = "for_package_file"
  /\ package_file >= MaxFiles
  /\ pc' = "for_pkg_vals"
  /\ UNCHANGED <<inputs, dpkgLocals, buf, map_file, error, listVars, history>>

\* Lines 109-110: the inner loop ended without break.
NotFound ==
  /\ pc = "for_package_file"
  /\ package_file >= MaxFiles
  /\ error' = NotFoundError(pkg_vals, pkg_name, pkg_version)
  /\ pc' = "error"
  /\ UNCHANGED <<inputs, dpkgLocals, buf, map_file, listVars, history>>

\* Lines 85-88: test the loaded index against the specifier.
Match ==
  /\ pc = "match"
  /\ pc' = IF Matches(metadata, pkg_name, pkg_version)
           THEN "urlopen" ELSE "for_package_file"
  /\ UNCHANGED <<inputs, dpkgLocals, buf, map_file, error, listVars, history>>

\* Line 89: the transport returns some bytes for the record's URL.
Urlopen ==
  /\ pc = "urlopen"
  /\ \E bytes \in Bytes : buf' = <<bytes>>
  /\ fetched' = Append(fetched,
                       <<i, package_file, metadata[pkg_name][FILENAME_KEY]>>)
  /\ pc' = "record_rule"
  /\ UNCHANGED <<inputs, dpkgLocals, map_file, error, listVars, opened,
                 verified, map_writes>>

\* Line 89: the transport fails.
UrlopenFails ==
  /\ pc = "urlopen"
  /\ error' = URLError(metadata[pkg_name][FILENAME_KEY])
  /\ pc' = "error"
  /\ UNCHANGED <<inputs, dpkgLocals, buf, map_file, listVars, history>>

RecordRule_token ==
  /\ pc = "record_rule"
  /\ package_to_rule_map' =
       Put(package_to_rule_map, pkg_vals,
           package_to_rule(workspace_name, pkg_vals))
  /\ pc' = "write_out_file"
  /\ UNCHANGED <<inputs, i, pkg_vals, pkg_name, pkg_version, package_file,
                 metadata, buf, out_file, pkg_vals_to_package_file_and_sha256,
                 map_file, error, listVars, history>>

\* Line 90: the rule identifier is put into the output mapping.
RecordRule ==
  /\ pc = "record_rule"
  /\ package_to_rule_map' =
       Put(package_to_rule_map, pkg_name,
           package_to_rule(workspace_name, pkg_name))
  /\ pc' = "write_out_file"
  /\ UNCHANGED <<inputs, i, pkg_vals, pkg_name, pkg_version, package_file,
                 metadata, buf, out_file, pkg_vals_to_package_file_and_sha256,
                 map_file, error, listVars, history>>

\* Lines 91-93: the downloaded bytes are written to the artifact file.
WriteOutFile ==
  /\ pc = "write_out_file"
  /\ out_file' = buf
  /\ pc' = "checksum"
  /\ UNCHANGED <<inputs, i, pkg_vals, pkg_name, pkg_version, package_file,
                 metadata, buf, package_to_rule_map,
                 pkg_vals_to_package_file_and_sha256, map_file, error,
                 listVars, history>>

\* Lines 94-97: compare the digest of the file with the declared digest.
Checksum ==
  /\ pc = "checksum"
  /\ LET expected_checksum == sha256_checksum(out_file[1])
         actual_checksum == metadata[pkg_name][SHA256_KEY]
     IN IF ChecksumMismatch(actual_checksum, expected_checksum)
        THEN /\ error' = IntegrityError(pkg_name, expected_checksum,
                                        actual_checksum)
             /\ pc' = "error"
             /\ UNCHANGED verified
        ELSE /\ verified' = verified \cup {i}
             /\ pc' = "if_unpinned"
             /\ UNCHANGED error
  /\ UNCHANGED <<inputs, dpkgLocals, buf, map_file, listVars, opened,
                 fetched, map_writes>>

UnpinnedBreak_continue ==
  /\ pc = "if_unpinned"
  /\ pkg_version = <<>>
  /\ pc' = "for_package_file"
  /\ UNCHANGED <<inputs, dpkgLocals, buf, map_file, error, listVars, history>>

\* Lines 98-99: an unpinned specifier leaves the search loop.
UnpinnedBreak ==
  /\ pc = "if_unpinned"
  /\ pkg_version = <<>>
  /\ pc' = "for_pkg_vals"
  /\ UNCHANGED <<inputs, dpkgLocals, buf, map_file, error, listVars, history>>

\* Lines 100-108: a pinned specifier raises a conflict, or records
\* (package_file, digest) under its token and leaves the search loop.
PinnedRecord ==
  /\ pc = "if_unpinned"
  /\ pkg_version # <<>>
  /\ LET actual_checksum == metadata[pkg_name][SHA256_KEY]
         seen == pkg_vals_to_package_file_and_sha256
     IN IF Conflicting(seen, pkg_vals, actual_checksum)
        THEN /\ error' = ConflictError(pkg_name, pkg_version,
                                       seen[pkg_vals][1], seen[pkg_vals][2],
                                       package_file, actual_checksum)
             /\ pc' = "error"
             /\ UNCHANGED pkg_vals_to_package_file_and_sha256
        ELSE /\ pkg_vals_to_package_file_and_sha256' =
                  Put(seen, pkg_vals, <<package_file, actual_checksum>>)
             /\ pc' = "for_pkg_vals"
             /\ UNCHANGED error
  /\ UNCHANGED <<inputs, i, pkg_vals, pkg_name, pkg_version, package_file,
                 metadata, buf, out_file, package_to_rule_map, map_file,
                 listVars, history>>

\* Lines 111-112: packages.bzl is written.
WriteMap ==
  /\ pc = "write_map"
  /\ map_file' = <<package_to_rule_map>>
  /\ map_writes' = map_writes + 1
  /\ pc' = "done"
  /\ UNCHANGED <<inputs, dpkgLocals, buf, error, listVars, opened, fetched,
                 verified>>

\* -------------------------------------------------- download_package_list
ListShaMismatch_never(expected, actual_sha256) == FALSE

\* Line 154: exact string comparison of --sha256 with the computed digest.
ListShaMismatch(expected, actual_sha256) == expected # actual_sha256

\* Line 150: the transport returns the bytes of Packages.gz.
ListUrlopen ==
  /\ pc = "list_urlopen"
  /\ \E bytes \in Bytes : buf' = <<bytes>>
  /\ pc' = "list_write_gz"
  /\ UNCHANGED <<inputs, dpkgLocals, map_file, error, listVars, history>>

\* Line 150: the transport fails.
ListUrlopenFails ==
  /\ pc = "list_urlopen"
  /\ error' = URLError(<<"Packages.gz">>)
  /\ pc' = "error"
  /\ UNCHANGED <<inputs, dpkgLocals, buf, map_file, listVars, history>>

\* Lines 151-152: the bytes are written to Packages.gz.
ListWriteGz ==
  /\ pc = "list_write_gz"
  /\ gz_file' = buf
  /\ pc' = "list_sha256"
  /\ UNCHANGED <<inputs, dpkgLocals, buf, map_file, error, sha256, data,
                 list_metadata, packages_json, history>>

\* Lines 153-155: the digest of Packages.gz is compared with --sha256.
ListSha256 ==
  /\ pc = "list_sha256"
  /\ LET actual_sha256 == sha256_checksum(gz_file[1])
     IN IF ListShaMismatch(sha256, actual_sha256)
        THEN /\ error' = <<"sha256 of Packages.gz don't match", sha256,
                           actual_sha256>>
             /\ pc' = "error"
        ELSE /\ pc' = "list_gunzip"
             /\ UNCHANGED error
  /\ UNCHANGED <<inputs, dpkgLocals, buf, map_file, listVars, history>>

\* Lines 156-157: gzip inflates Packages.gz, or raises on a corrupt stream.
ListGunzip ==
  /\ pc = "list_gunzip"
  /\ IF gz_file[1] \in GzipOk
     THEN /\ data' = <<"text", gz_file[1]>>
          /\ pc' = "list_parse"
          /\ UNCHANGED error
     ELSE /\ error' = <<"IOError", "Not a gzipped file">>
          /\ pc' = "error"
          /\ UNCHANGED data
  /\ UNCHANGED <<inputs, dpkgLocals, buf, map_file, sha256, gz_file,
                 list_metadata, packages_json, history>>

\* Line 158: parse_package_metadata returns the index, or raises.
ListParse ==
  /\ pc = "list_parse"
  /\ IF data[2] \in ParseOk
     THEN /\ list_metadata' = <<"index", data[2]>>
          /\ pc' = "list_write_json"
          /\ UNCHANGED error
     ELSE /\ error' = <<"parse error">>
          /\ pc' = "error"
          /\ UNCHANGED list_metadata
  /\ UNCHANGED <<inputs, dpkgLocals, buf, map_file, sha256, gz_file, data,
                 packages_json, history>>

\* Lines 159-160: the metadata is dumped to Packages.json.
ListWriteJson ==
  /\ pc = "list_write_json"
  /\ packages_json' = list_metadata
  /\ pc' = "done"
  /\ UNCHANGED <<inputs, dpkgLocals, buf, map_file, error, sha256, gz_file,
                 data, list_metadata, history>>

\* ---------------------------------------------------------- specification
Next ==
  \/ Main
  \/ ForPkgVals
  \/ ForPackageFile
  \/ NotFound
  \/ Match
  \/ Urlopen
  \/ UrlopenFails
  \/ RecordRule
  \/ WriteOutFile
  \/ Checksum
  \/ UnpinnedBreak
  \/ PinnedRecord
  \/ WriteMap
  \/ ListUrlopen
  \/ ListUrlopenFails
  \/ ListWriteGz
  \/ ListSha256
  \/ ListGunzip
  \/ ListParse
  \/ ListWriteJson

Spec == Init /\ [][Next]_vars

\* ------------------------------------------------- vocabulary of the claims
NumSpecs == Len(PkgValsList)
CountChar(s, c) == Cardinality({k \in 1..Len(s) : s[k] = c})
Specifier(k) == SplitSpecifier(PkgValsList[k])
SpecName(k) == Specifier(k).name
SpecVersion(k) == Specifier(k).version

\* File j holds a record of the name at the version, or at any version when
\* the version is empty.
Satisfies(name, version, j) ==
  /\ name \in DOMAIN package_files[j]
  /\ \/ version = <<>>
     \/ package_files[j][name].Version = version

\* File j holds a record that satisfies specifier k.
MatchAt(k, j) == LET sp == Specifier(k) IN Satisfies(sp.name, sp.version, j)

\* The earliest file that satisfies specifier k, 0 if there is none.
FirstMatch(k) ==
  LET sp == Specifier(k)
      S == {j \in 1..MaxFiles : Satisfies(sp.name, sp.version, j)}
  IN IF S = {} THEN 0 ELSE CHOOSE j \in S : \A j2 \in S : j <= j2

NoMatch(k) == FirstMatch(k) = 0

FetchesOf(k) == {n \in 1..Len(fetched) : fetched[n][1] = k}
OpensOf(k) == {n \in 1..Len(opened) : opened[n][1] = k}
FilesOpenedFor(k) == {opened[n][2] : n \in OpensOf(k)}
LoadsOf(f) == {n \in 1..Len(opened) : opened[n][2] = f}

\* C1: when the digest computed over the downloaded bytes differs from the
\* digest declared by the matched record, the step raises the integrity
\* error for the current specifier, packages.bzl is unwritten, and nothing
\* happens after an error: no later specifier, no write of packages.bzl.
C1_IntegrityAbort ==
  [][ /\ pc # "error"
      /\ (pc = "checksum"
          /\ sha256_checksum(out_file[1]) # metadata[pkg_name].SHA256)
         => /\ pc' = "error"
            /\ error' = <<"Wrong checksum", pkg_name,
                          sha256_checksum(out_file[1]),
                          metadata[pkg_name].SHA256>>
            /\ i' = i
            /\ map_file' = None
            /\ verified' = verified ]_vars

C1_Witness ==
  /\ pc = "error"
  /\ error[1] = "Wrong checksum"
  /\ error[4] = "D1"
  /\ error[3] = "d1"
  /\ i < NumSpecs
  /\ map_file = None

\* C2: a run in which a pinned specifier is held at the same version by an
\* earlier file A and a later file B with different digests never completes
\* successfully.
ConflictInput(k) ==
  /\ SpecVersion(k) # <<>>
  /\ \E A \in 1..MaxFiles, B \in 1..MaxFiles :
       /\ A < B
       /\ MatchAt(k, A)
       /\ MatchAt(k, B)
       /\ package_files[A][SpecName(k)].SHA256 #
            package_files[B][SpecName(k)].SHA256

C2_PinnedConflictAborts ==
  (pc = "done" /\ map_file # None) => \A k \in 1..NumSpecs : ~ConflictInput(k)

\* C3: for an unpinned specifier whose artifact passed verification, exactly
\* one fetch was made, from the first file that contains the name, and no
\* file after that one was opened for the specifier.
C3_UnpinnedStops ==
  \A k \in verified :
    SpecVersion(k) = <<>> =>
      /\ Cardinality(FetchesOf(k)) = 1
      /\ \A n \in FetchesOf(k) :
           /\ SpecName(k) \in DOMAIN package_files[fetched[n][2]]
           /\ \A j \in 1..(fetched[n][2] - 1) :
                SpecName(k) \notin DOMAIN package_files[j]
           /\ \A f \in FilesOpenedFor(k) : f <= fetched[n][2]

C3_Witness ==
  /\ pc = "done"
  /\ map_file # None
  /\ 1 \in verified
  /\ SpecVersion(1) = <<>>
  /\ fetched[1][2] = 1
  /\ MaxFiles \notin FilesOpenedFor(1)
  /\ SpecName(1) \in DOMAIN package_files[MaxFiles]
  /\ package_files[MaxFiles][SpecName(1)] # package_files[1][SpecName(1)]

\* C4: when no index file holds a record that satisfies a specifier, nothing
\* is fetched for it, packages.bzl is not written, the run does not go past
\* the specifier, and the error that ends the run is the not-found error
\* with the package name and the requested version.
C4_NotFound ==
  \A k \in 1..i :
    NoMatch(k) =>
      /\ k = i
      /\ FetchesOf(k) = {}
      /\ map_file = None
      /\ pc \in {"for_package_file", "match", "error"}
      /\ pc = "error" =>
           /\ error = <<"not found", SpecName(k), SpecVersion(k)>>
           /\ FilesOpenedFor(k) = 1..MaxFiles

C4_Witness ==
  /\ pc = "error"
  /\ error[1] = "not found"
  /\ pkg_version # <<>>
  /\ pkg_vals # pkg_name
  /\ \E j \in 1..MaxFiles : pkg_name \in DOMAIN package_files[j]
  /\ fetched = <<>>

\* C5: every fetch is made from the earliest file whose record satisfies the
\* specifier, with the URL of that record; the files before it were opened
\* in order and nothing was fetched from them; a specifier the run has gone
\* past has been fetched.
C5_EarliestMatch ==
  \A k \in 1..i :
    LET first == FirstMatch(k)
        fetches == FetchesOf(k)
    IN /\ \A n \in fetches :
            /\ fetched[n][2] = first
            /\ fetched[n][3] = package_files[first][SpecName(k)].Filename
            /\ FilesOpenedFor(k) = 1..first
       /\ Cardinality(fetches) <= 1
       /\ k < i => fetches # {}

C5_Witness ==
  /\ Len(fetched) = 1
  /\ fetched[1][2] = 2
  /\ SpecVersion(1) # <<>>
  /\ SpecName(1) \in DOMAIN package_files[1]
  /\ package_files[1][SpecName(1)].Version # SpecVersion(1)
  /\ 1 \in verified

\* C6: packages.bzl is written at most once, only by a run that ended
\* without error after every specifier was matched, fetched and verified,
\* and what is written has an entry for the name of every specifier.
C6_MapWrittenOnceAtEnd ==
  /\ map_writes <= 1
  /\ (map_writes = 0) <=> (map_file = None)
  /\ pc = "error" => map_file = None
  /\ map_file # None =>
       /\ pc = "done"
       /\ error = None
       /\ i = NumSpecs
       /\ \A k \in 1..NumSpecs :
            /\ k \in verified
            /\ \E n \in FetchesOf(k) : MatchAt(k, fetched[n][2])
            /\ SpecName(k) \in DOMAIN map_file[1]

C6_Witness ==
  /\ map_file # None
  /\ NumSpecs = MaxSpecs
  /\ SpecName(1) # SpecName(MaxSpecs)
  /\ DOMAIN map_file[1] = {SpecName(k) : k \in 1..NumSpecs}

\* C7 as stated: no index file is loaded more than once in a run.
C7_LoadedOncePerRun ==
  \A f \in 1..MaxFiles : Cardinality(LoadsOf(f)) <= 1

\* C7 amended: an index file is loaded at most once per specifier, and once
\* for every specifier whose search reaches it: the files loaded for a
\* specifier are exactly those up to its first match (all files when there is
\* none), each loaded anew although earlier specifiers loaded them already.
C7_LoadedOncePerSpecifier ==
  /\ \A n \in 1..Len(opened), m \in 1..Len(opened) :
       opened[n] = opened[m] => n = m
  /\ \A k \in 1..i :
       LET first == FirstMatch(k) IN
       FilesOpenedFor(k) =
         1..(IF k = i THEN package_file
             ELSE IF first = 0 THEN MaxFiles ELSE first)
  /\ \A n \in 1..Len(opened) : opened[n][1] \in 1..i

C7_Witness ==
  /\ pc = "done"
  /\ map_file # None
  /\ Cardinality(LoadsOf(1)) = MaxSpecs
  /\ Cardinality(LoadsOf(MaxFiles)) >= 1

\* C8: Packages.json is written only by a run whose fetch returned bytes
\* with the expected SHA-256 that gzip inflated and the parser accepted; a
\* run that ended in an error has written no Packages.json.
C8_ListAllOrNothing ==
  /\ pc = "error" => packages_json = None
  /\ packages_json # None =>
       /\ pc = "done"
       /\ error = None
       /\ gz_file # None
       /\ sha256_checksum(gz_file[1]) = sha256
       /\ gz_file[1] \in GzipOk
       /\ gz_file[1] \in ParseOk
       /\ packages_json = list_metadata

C8_Witness ==
  /\ packages_json # None
  /\ pc = "done"
  /\ sha256 = "d1"

\* C9 as stated: every name in the output mapping is the name of a specifier
\* whose artifact has already passed the digest comparison.
C9_RecordedOnlyWhenVerified ==
  \A name \in DOMAIN package_to_rule_map :
    \E k \in verified : SpecName(k) = name

\* C9 amended: every name in the output mapping is the name of a specifier
\* whose artifact has been fetched, and that specifier has passed the digest
\* comparison unless it is the current one; every name in the written
\* packages.bzl has passed the digest comparison.
C9_RecordedWhenFetched ==
  /\ \A name \in DOMAIN package_to_rule_map :
       \E k \in 1..i :
         /\ SpecName(k) = name
         /\ FetchesOf(k) # {}
         /\ k \in verified \/ k = i
         /\ package_to_rule_map[name] = package_to_rule(workspace_name, name)
  /\ map_file # None =>
       \A name \in DOMAIN map_file[1] :
         \E k \in verified : SpecName(k) = name

C9_Witness ==
  /\ pc = "checksum"
  /\ pkg_name \in DOMAIN package_to_rule_map
  /\ i \notin verified
  /\ sha256_checksum(out_file[1]) # metadata[pkg_name].SHA256

\* C10: the current token is pinned exactly when it has one "=" that is not
\* its last character, and then name and version are the parts before and
\* after it; any other token is unpinned, a token without exactly one "="
\* is itself the package name, and only pinned tokens get a resolution
\* record; the not-found error names that package name.
C10_Classification ==
  i >= 1 =>
    LET n == CountChar(pkg_vals, Equals) IN
    /\ pkg_vals = PkgValsList[i]
    /\ (pkg_version # <<>>) <=> (n = 1 /\ pkg_vals[Len(pkg_vals)] # Equals)
    /\ n # 1 => pkg_name = pkg_vals
    /\ n = 1 => pkg_vals = pkg_name \o <<Equals>> \o pkg_version
    /\ \A t \in DOMAIN pkg_vals_to_package_file_and_sha256 :
         CountChar(t, Equals) = 1 /\ t[Len(t)] # Equals
    /\ (pc = "error" /\ error[1] = "not found") =>
         (error[2] = pkg_name /\ error[3] = pkg_version)
    /\ (pc = "if_unpinned" /\ ~(n = 1 /\ pkg_vals[Len(pkg_vals)] # Equals)) =>
         ENABLED UnpinnedBreak

C10_Witness ==
  /\ pc = "error"
  /\ error[1] = "not found"
  /\ CountChar(pkg_vals, Equals) = 2
  /\ pkg_name = pkg_vals
  /\ pkg_version = <<>>
  /\ FilesOpenedFor(1) = 1..MaxFiles
  /\ fetched = <<>>

====
